---- MODULE Spec2Model ----
(***************************************************************************)
(* Model of PdfHtmlProcessor.process_pdf (src/pdf_split.py): the generator *)
(* that walks the pages of a PDF, keeps a six-slot heading list, an        *)
(* accumulated text, an image-path list and a table-text list, and yields  *)
(* one Document each time a heading arrives (or the input ends) while      *)
(* text is accumulated.                                                    *)
(*                                                                         *)
(* Strings are sequences of one-token strings ("ab" is <<"a","b">>), so    *)
(* that concatenation, join and slicing are computed.  Python lists are    *)
(* objects of a heap (a sequence of list values, a reference is an index), *)
(* so that two names bound to the same list see each other's mutations.    *)
(*                                                                         *)
(* The same document is fed to two processor instances, one called with    *)
(* embed_titles = FALSE and one with embed_titles = TRUE; self[e] is the   *)
(* instance whose call has embed_titles = e.                               *)
(***************************************************************************)
EXTENDS Naturals, Sequences, FiniteSets

\* ---------------------------------------------------------------- bounds
\* The pages and nodes of a document, together.
MaxInput == 5

\* ------------------------------------------------------ program constants
\* [None] * 6: the number of heading slots.
NumSlots == 6

\* ---------------------------------------------------------------- values
\* Python's None among strings: a value no text of the input equals.
None == <<"None">>

NL == "\n"

\* The element names the traversal tests for.
HeadingNames == <<"h1", "h2", "h3", "h4", "h5", "h6">>

\* int(child.name[-1])
Level(name) == CHOOSE l \in 1..NumSlots : HeadingNames[l] = name

IsHeading(name) == \E l \in 1..NumSlots : HeadingNames[l] = name

\* The texts of the input: the k-th heading, paragraph and page get their own
\* token, so that every text of a document is told apart from every other.
HeadingTokens == <<"A", "B", "C", "D", "E", "F", "G", "H">>
ParagraphTokens == <<"a", "b", "c", "d", "e", "f", "g", "h">>
PageTokens == <<"s", "t", "u", "v", "w", "x", "y", "z">>

\* "\n".join(items), for items that are all strings.
RECURSIVE Join(_, _)
Join(sep, items) ==
  IF Len(items) = 0 THEN <<>>
  ELSE IF Len(items) = 1 THEN items[1]
  ELSE items[1] \o <<sep>> \o Join(sep, Tail(items))

\* str.join raises TypeError on an item that is not a string.
JoinRaises(items) == \E i \in 1..Len(items) : items[i] = None

\* filter(None, items): drops None and the empty string.
FilterNone(items) == SelectSeq(items, LAMBDA t : t # None /\ t # <<>>)

\* ---------------------------------------------------------------- tables
\* "_".join(filter(lambda x: x is not None and "Col" not in x, names))
TableName(names) ==
  Join("_", SelectSeq(names,
       LAMBDA x : x # None /\ ~(\E i \in 1..Len(x) : x[i] = "Col")))

\* The table text of a page: name, newline, json, newline for every table.
RECURSIVE PageTableText(_)
PageTableText(tables) ==
  IF Len(tables) = 0 THEN <<>>
  ELSE TableName(tables[1].names) \o <<NL>> \o tables[1].json \o <<NL>>
       \o PageTableText(Tail(tables))

\* One table: a header with a name of its own, a null cell and a generic
\* "Col" label, and a body.
Table(token) ==
  [names |-> << <<token>>, None, <<"Col", "1">> >>, json |-> <<"{", "}">>]

\* What find_tables() reports for the k-th page: one table, two tables, no
\* table, and so on in turn.
PageTables(k) ==
  IF k % 3 = 1 THEN <<Table(PageTokens[k])>>
  ELSE IF k % 3 = 2 THEN <<Table(PageTokens[k]), Table("r")>>
  ELSE <<>>

\* ---------------------------------------------------------------- images
\* child.find("img"): no tag, or a tag with its src as tokens.
NoImg == [present |-> FALSE, src |-> <<>>]

ImgTag(src) == [present |-> TRUE, src |-> src]

\* The base64 text b64decode accepts, by quantum; any other payload has an
\* incorrect padding and makes b64decode raise binascii.Error.
B64Quanta == {"QUJD", "WFla"}

B64Value(q) == IF q = "QUJD" THEN "ABC" ELSE "XYZ"

B64Raises(data) == \E i \in 1..Len(data) : data[i] \notin B64Quanta

b64decode(data) == [i \in 1..Len(data) |-> B64Value(data[i])]

\* hashlib.md5(image_data).hexdigest(): one name per content.
md5(image_data) == <<"md5">> \o image_data

\* data_url.find(token, start): the first index at or after start, 0 for -1.
Find(url, token, start) ==
  IF \E i \in start..Len(url) : url[i] = token
  THEN CHOOSE i \in start..Len(url) :
         url[i] = token /\ \A j \in start..(i - 1) : url[j] # token
  ELSE 0

\* s.split("/")[-1]
LastPart(s) ==
  LET cuts == {i \in 1..Len(s) : s[i] = "/"}
      from == IF cuts = {} THEN 1
              ELSE 1 + CHOOSE i \in cuts : \A j \in cuts : j <= i
  IN SubSeq(s, from, Len(s))

\* os.path.join(pdf_images_dir, f"{hash_name}.{file_extension}")
ImagePath(dir, hash_name, file_extension) ==
  <<dir, "/">> \o hash_name \o <<".">> \o file_extension

\* _check_and_decode_base64_image(img_tag) on a storage in state fs
\* ([dir_exists, files]); io_ok says whether makedirs and open succeed.
\* The result: what is raised ("" for a return), the path returned (None for
\* a return of None) and the storage afterwards.
check_and_decode_base64_image(img_tag, dir, fs, io_ok) ==
  LET data_url == img_tag.src
      nothing == [raised |-> "", path |-> None, fs |-> fs]
  IN IF ~img_tag.present \/ Len(data_url) = 0 \/ data_url[1] # "data:image/"
     THEN nothing
     ELSE
       LET data_url_start == Find(data_url, "data:image/", 1)
           data_url_end == Find(data_url, ";base64,", data_url_start)
       IN IF data_url_start = 0 \/ data_url_end = 0 THEN nothing
          ELSE
            LET img_data == SubSeq(data_url, data_url_end + 1, Len(data_url))
            IN IF B64Raises(img_data)
               THEN [raised |-> "binascii.Error", path |-> None, fs |-> fs]
               ELSE IF ~io_ok
               THEN [raised |-> "OSError", path |-> None, fs |-> fs]
               ELSE
                 LET image_data == b64decode(img_data)
                     hash_name == md5(image_data)
                     file_extension ==
                       LastPart(SubSeq(data_url, data_url_start + 1,
                                       data_url_end - 1))
                     image_path == ImagePath(dir, hash_name, file_extension)
                 IN [raised |-> "", path |-> image_path,
                     fs |-> [dir_exists |-> TRUE,
                             files |-> fs.files \cup {image_path}]]

\* The img tags of the input: an inlined png, and an inlined png whose
\* payload is cut short.
InlineImg == ImgTag(<<"data:image/", "png", ";base64,", "QUJD">>)
BrokenImg == ImgTag(<<"data:image/", "png", ";base64,", "QUJ">>)

\* What the k-th paragraph of plain text holds besides its text: no img tag,
\* a linked picture, a data URL that is not base64.
PlainImg(k) ==
  IF k % 3 = 1 THEN NoImg
  ELSE IF k % 3 = 2 THEN ImgTag(<<"http://", "host", "/", "a.png">>)
  ELSE ImgTag(<<"data:image/", "svg+xml", ",", "<svg/>">>)

\* ----------------------------------------------------------------- dates
\* A date string is the sequence of its characters.
Digits == <<"0", "1", "2", "3", "4", "5", "6", "7", "8", "9">>

IsDigit(c) == \E i \in 1..10 : Digits[i] = c

DigitValue(c) == (CHOOSE i \in 1..10 : Digits[i] = c) - 1

\* s[a:b], clipped to the string as Python clips it.
Slice(s, a, b) == SubSeq(s, a + 1, IF b < Len(s) THEN b ELSE Len(s))

RECURSIVE DigitsValue(_)
DigitsValue(ds) ==
  IF Len(ds) = 0 THEN 0
  ELSE 10 * DigitsValue(SubSeq(ds, 1, Len(ds) - 1)) + DigitValue(ds[Len(ds)])

\* int(x): digits after an optional sign; ValueError for anything else.
\* The result: whether int raises, whether the value is below zero, and its
\* magnitude.
int(x) ==
  LET signed == Len(x) > 0 /\ x[1] \in {"+", "-"}
      ds == IF signed THEN Tail(x) ELSE x
  IN IF Len(ds) = 0 \/ \E i \in 1..Len(ds) : ~IsDigit(ds[i])
     THEN [raises |-> TRUE, negative |-> FALSE, value |-> 0]
     ELSE [raises |-> FALSE,
           negative |-> signed /\ x[1] = "-" /\ DigitsValue(ds) > 0,
           value |-> DigitsValue(ds)]

IsLeap(year) == year % 4 = 0 /\ (year % 100 # 0 \/ year % 400 = 0)

DaysInMonth(year, month) ==
  IF month = 2 THEN (IF IsLeap(year) THEN 29 ELSE 28)
  ELSE IF month \in {4, 6, 9, 11} THEN 30 ELSE 31

\* datetime(year, month, day, hour, minute, second) raises ValueError.
DatetimeRaises(year, month, day, hour, minute, second) ==
  \/ year < 1 \/ year > 9999
  \/ month < 1 \/ month > 12
  \/ day < 1 \/ day > DaysInMonth(year, month)
  \/ hour > 23 \/ minute > 59 \/ second > 59

\* n as decimal digits, zero-padded to the width.
RECURSIVE Decimal(_, _)
Decimal(n, width) ==
  IF width <= 1 /\ n < 10 THEN <<Digits[n + 1]>>
  ELSE Decimal(n \div 10, width - 1) \o <<Digits[(n % 10) + 1]>>

\* dt.strftime('%Y-%m-%d %H:%M:%S').  %m, %d, %H, %M and %S are two digits;
\* %Y is what the C library makes of it: four digits, or for a year below
\* 1000 the digits it has when the library does not pad (pad_year).
strftime(year, month, day, hour, minute, second, pad_year) ==
  Decimal(year, IF pad_year THEN 4 ELSE 1) \o <<"-">> \o Decimal(month, 2)
    \o <<"-">> \o Decimal(day, 2) \o <<" ">> \o Decimal(hour, 2)
    \o <<":">> \o Decimal(minute, 2) \o <<":">> \o Decimal(second, 2)

\* _convert_pdf_date(pdf_date_str): what is raised ("" for a return) and the
\* string returned.
convert_pdf_date(pdf_date_str, pad_year) ==
  LET year == int(Slice(pdf_date_str, 2, 6))
      month == int(Slice(pdf_date_str, 6, 8))
      day == int(Slice(pdf_date_str, 8, 10))
      hour == int(Slice(pdf_date_str, 10, 12))
      minute == int(Slice(pdf_date_str, 12, 14))
      second == int(Slice(pdf_date_str, 14, 16))
      fields == <<year, month, day, hour, minute, second>>
      failed == [raised |-> "ValueError", value |-> None]
  IN IF \E i \in 1..6 : fields[i].raises THEN failed
     ELSE IF \E i \in 1..6 : fields[i].negative THEN failed
     ELSE IF DatetimeRaises(year.value, month.value, day.value,
                            hour.value, minute.value, second.value)
     THEN failed
     ELSE [raised |-> "",
           value |-> strftime(year.value, month.value, day.value,
                              hour.value, minute.value, second.value,
                              pad_year)]


\* ------------------------------------------------------- processor state
VARIABLES
  self,          \* self[e]: the processor whose call has embed_titles = e
  exact_images,  \* the exact_images argument of the call
  pages,         \* the tables of the pages read so far, in order
  children,      \* the nodes read so far, in order, each with its page
  marks,         \* marks[e]: where in the input each Document was closed,
                 \* and what its lists held when it was handed over
  taken,         \* taken[e]: the nodes the child loop of run e has taken
  pdf_metadata,  \* pdf.metadata as the file has it
  store          \* the image directory shared by concurrent extractions

vars == <<self, exact_images, pages, children, marks, taken, pdf_metadata,
          store>>

Runs == BOOLEAN

\* __init__: the three lists are three objects of the heap.
NewProcessor ==
  [ text_titles      |-> 1,
    image_paths      |-> 2,
    table_text_list  |-> 3,
    accumulated_text |-> <<>>,
    pdf_images_dir   |-> "./pdf_images",
    file_metadata    |-> [creationDate |-> None, modDate |-> None],
    heap             |-> << [i \in 1..NumSlots |-> None], <<>>, <<>> >>,
    out              |-> <<>>,
    pc               |-> "init",
    raised           |-> "",
    storage          |-> [dir_exists |-> FALSE, files |-> {}] ]

\* The key is not in the dictionary.
Absent == <<"absent">>

\* fitz.open has succeeded: the two dates of pdf.metadata are converted in
\* place, and the dictionary becomes self.file_metadata.
OpenStep(p, metadata, pad_year) ==
  LET converted(value) ==
        IF value = Absent THEN [raised |-> "", value |-> Absent]
        ELSE convert_pdf_date(value, pad_year)
      creationDate == converted(metadata.creationDate)
      modDate == converted(metadata.modDate)
  IN IF creationDate.raised # ""
     THEN [p EXCEPT !.pc = "raised", !.raised = creationDate.raised]
     ELSE IF modDate.raised # ""
     THEN [p EXCEPT !.pc = "raised", !.raised = modDate.raised]
     ELSE [p EXCEPT !.file_metadata = [creationDate |-> creationDate.value,
                                       modDate |-> modDate.value],
                    !.pc = "run"]

\* Document(page_content=..., metadata={...}) after
\* metadata.update(self.file_metadata): the three lists by reference, the
\* two dates by value.
Document(page_content, titles, images, table, file_metadata) ==
  [ page_content |-> page_content,
    titles       |-> titles,
    images       |-> images,
    table        |-> table,
    creationDate |-> file_metadata.creationDate,
    modDate      |-> file_metadata.modDate ]

\* Mutant of SetTitle: the slots above the level are left as they were.
SetTitleKeepDeeper(titles, level, text) ==
  [i \in 1..NumSlots |-> IF i = level THEN text ELSE titles[i]]

\* self.text_titles[level - 1] = text; self.text_titles[level:] = [None] * (6 - level)
SetTitle(titles, level, text) ==
  [i \in 1..NumSlots |->
     IF i = level THEN text ELSE IF i > level THEN None ELSE titles[i]]

\* s[:n]
Prefix(s, n) == SubSeq(s, 1, n)

\* Mutant of ResetBuffers: the text is not started anew.
ResetBuffersKeepText(p) ==
  [p EXCEPT !.image_paths = Len(p.heap) + 1,
            !.heap = Append([p.heap EXCEPT ![p.table_text_list] = <<>>], <<>>)]

\* Mutant of ResetBuffers: the table list is not cleared.
ResetBuffersKeepTables(p) ==
  [p EXCEPT !.accumulated_text = <<>>,
            !.image_paths = Len(p.heap) + 1,
            !.heap = Append(p.heap, <<>>)]

\* The three resets after a yield: a new string, a new list, clear() in place.
ResetBuffers(p) ==
  [p EXCEPT !.accumulated_text = <<>>,
            !.image_paths = Len(p.heap) + 1,
            !.heap = Append([p.heap EXCEPT ![p.table_text_list] = <<>>], <<>>)]

\* Mutant of PageStep: a new page starts the text anew.
PageStepClosing(p, tables) ==
  [p EXCEPT !.heap[p.table_text_list] = Append(@, PageTableText(tables)),
            !.accumulated_text = <<>>]

\* for page in pdf: the table text of the page is appended in place.
PageStep(p, tables) ==
  [p EXCEPT !.heap[p.table_text_list] = Append(@, PageTableText(tables))]

\* A heading node: the heading is applied to the slots, then, if text is
\* accumulated, a Document is built and yielded.
HeadingStep(p, embed_titles, child) ==
  LET level == Level(child.name)
      applied == [p.heap EXCEPT
                    ![p.text_titles] = SetTitle(@, level, child.text)]
      titles == Prefix(applied[p.text_titles], level)
  IN IF p.accumulated_text = <<>> THEN [p EXCEPT !.heap = applied]
     ELSE IF embed_titles /\ JoinRaises(titles)
     THEN [p EXCEPT !.heap = applied, !.pc = "raised", !.raised = "TypeError"]
     ELSE
       LET page_content ==
             IF embed_titles
             THEN Join(NL, titles) \o <<NL, NL>> \o p.accumulated_text
             ELSE p.accumulated_text
           withTitles == Append(applied, titles)
           withTable == Append(withTitles, applied[p.table_text_list])
           pdf_document == Document(page_content, Len(withTitles),
                                    p.image_paths, Len(withTable),
                                    p.file_metadata)
       IN [p EXCEPT !.heap = withTable,
                    !.out = Append(@, pdf_document),
                    !.pc = "yield"]

\* Mutant of ParagraphStep: a newline is put between two paragraphs.
ParagraphStepSeparated(p, exact, child, io_ok) ==
  LET sep == IF p.accumulated_text = <<>> THEN <<>> ELSE <<NL>>
      asText == [p EXCEPT !.accumulated_text = @ \o sep \o child.text]
  IN IF exact
     THEN LET r == check_and_decode_base64_image(
                     child.img, p.pdf_images_dir, p.storage, io_ok)
          IN IF r.raised # ""
             THEN [p EXCEPT !.pc = "raised", !.raised = r.raised]
             ELSE IF r.path # None /\ r.path # <<>>
             THEN [p EXCEPT !.heap[p.image_paths] = Append(@, r.path),
                            !.storage = r.fs]
             ELSE asText
     ELSE asText

\* A paragraph node.
ParagraphStep(p, exact, child, io_ok) ==
  LET asText == [p EXCEPT !.accumulated_text = @ \o child.text]
  IN IF exact
     THEN LET r == check_and_decode_base64_image(
                     child.img, p.pdf_images_dir, p.storage, io_ok)
          IN IF r.raised # ""
             THEN [p EXCEPT !.pc = "raised", !.raised = r.raised]
             ELSE IF r.path # None /\ r.path # <<>>
             THEN [p EXCEPT !.heap[p.image_paths] = Append(@, r.path),
                            !.storage = r.fs]
             ELSE asText
     ELSE asText

\* Mutant of ChildStep: a node that is no heading is taken as a paragraph.
ChildStepElseParagraph(p, embed_titles, exact, child, io_ok) ==
  IF IsHeading(child.name) THEN HeadingStep(p, embed_titles, child)
  ELSE ParagraphStep(p, exact, child, io_ok)

\* The body of "for child in children".
ChildStep(p, embed_titles, exact, child, io_ok) ==
  IF IsHeading(child.name) THEN HeadingStep(p, embed_titles, child)
  ELSE IF child.name = "p" THEN ParagraphStep(p, exact, child, io_ok)
  ELSE p

\* Mutant of FinalStep: the last Document carries the first slot alone.
FinalStepFirstSlot(p, embed_titles) ==
  IF p.accumulated_text = <<>> THEN [p EXCEPT !.pc = "done"]
  ELSE
    LET titles == Prefix(p.heap[p.text_titles], 1)
        page_content ==
          IF embed_titles
          THEN Join(NL, FilterNone(titles)) \o <<NL, NL>> \o p.accumulated_text
          ELSE p.accumulated_text
        pdf_document == Document(page_content, Len(p.heap) + 1,
                                 p.image_paths, p.table_text_list,
                                 p.file_metadata)
    IN [p EXCEPT !.heap = Append(@, titles),
                 !.out = Append(@, pdf_document),
                 !.pc = "yield_final"]

\* After the last page.
FinalStep(p, embed_titles) ==
  IF p.accumulated_text = <<>> THEN [p EXCEPT !.pc = "done"]
  ELSE
    LET page_content ==
          IF embed_titles
          THEN Join(NL, FilterNone(p.heap[p.text_titles])) \o <<NL, NL>>
               \o p.accumulated_text
          ELSE p.accumulated_text
        pdf_document == Document(page_content, p.text_titles,
                                 p.image_paths, p.table_text_list,
                                 p.file_metadata)
    IN [p EXCEPT !.out = Append(@, pdf_document), !.pc = "yield_final"]

\* ------------------------------------------------------------ the input
IsHeadingNode(c) == IsHeading(c.name)
IsParagraphNode(c) == c.name = "p"
IsOtherNode(c) == ~IsHeading(c.name) /\ c.name # "p"

\* The headings and the paragraphs read so far.
HeadingsRead ==
  Cardinality({i \in 1..Len(children) : IsHeadingNode(children[i].child)})
ParagraphsRead ==
  Cardinality({i \in 1..Len(children) : IsParagraphNode(children[i].child)})

\* The heading elements the input documents use.
InputHeadings == {"h1", "h2", "h3"}

\* The next heading of the input: its level, the text of its own.
HeadingNodes ==
  { [name |-> h,
     text |-> <<HeadingTokens[HeadingsRead + 1]>>,
     img  |-> NoImg] : h \in InputHeadings }

\* The next paragraph: plain text of its own, the same around an inlined
\* image, or no text around an inlined image that does not decode.
ParagraphNodes ==
  LET k == ParagraphsRead + 1
  IN { [name |-> "p", text |-> <<ParagraphTokens[k]>>, img |-> PlainImg(k)],
       [name |-> "p", text |-> <<ParagraphTokens[k]>>, img |-> InlineImg],
       [name |-> "p", text |-> <<>>, img |-> BrokenImg] }

\* A node that is neither: a div with text.
OtherNodes == { [name |-> "div", text |-> <<"o">>, img |-> NoImg] }

\* The dates of the input documents: both well formed; no creation date
\* recorded; a modification date in month 13.
ExampleDate ==
  <<"D", ":", "2", "0", "2", "3", "0", "6", "1", "5", "1", "4", "3", "0", "2",
    "2", "+", "0", "8", "'", "0", "0", "'">>
LeapDate ==
  <<"D", ":", "2", "0", "2", "4", "0", "2", "2", "9", "0", "0", "0", "0", "0",
    "0", "Z">>
Month13Date ==
  <<"D", ":", "2", "0", "2", "3", "1", "3", "0", "1", "0", "0", "0", "0", "0",
    "0">>
InputMetadata ==
  { [creationDate |-> ExampleDate, modDate |-> LeapDate],
    [creationDate |-> <<>>, modDate |-> LeapDate],
    [creationDate |-> ExampleDate, modDate |-> Month13Date] }

\* The extractions that store into one image directory, each a processor
\* of its own in a thread or process of its own.
Extractions == {"x1", "x2", "x3"}

\* The image directory before any extraction: it does not exist, and every
\* extraction is outside the image routine.  stored is the log of what the
\* routine has returned: the bytes and the path.
NewStore ==
  [ dir_exists |-> FALSE,
    files      |-> {},
    stored     |-> {},
    begun      |-> 0,
    at         |-> [x \in Extractions |-> "idle"],
    image_data |-> [x \in Extractions |-> <<>>],
    image_path |-> [x \in Extractions |-> None],
    raised     |-> [x \in Extractions |-> ""] ]

\* ------------------------------------------------------------- actions
Init ==
  /\ self = [e \in Runs |-> NewProcessor]
  /\ exact_images = FALSE
  /\ pages = <<>>
  /\ children = <<>>
  /\ marks = [e \in Runs |-> <<>>]
  /\ taken = [e \in Runs |-> 0]
  /\ pdf_metadata \in InputMetadata
  /\ store = NewStore

\* Every instance that has not raised is between two nodes.
Running ==
  /\ \A e \in Runs : self[e].pc \in {"run", "raised"}
  /\ \E e \in Runs : self[e].pc = "run"

\* The document has pages or nodes left to read.
InputLeft == Len(pages) + Len(children) < MaxInput

\* A Document closed by this step is marked with the node that closed it
\* (one past the last node at the end of the input), the page it was on and
\* the contents of its three lists as the consumer receives them.
Marked(next, node) ==
  [e \in Runs |->
     IF Len(next[e].out) > Len(self[e].out)
     THEN LET d == next[e].out[Len(next[e].out)]
          IN Append(marks[e], [ node   |-> node,
                                page   |-> Len(pages),
                                titles |-> next[e].heap[d.titles],
                                images |-> next[e].heap[d.images],
                                table  |-> next[e].heap[d.table] ])
     ELSE marks[e]]

\* process_pdf(embed_titles, exact_images) is called and fitz.open succeeds.
Call(exact, pad_year) ==
  /\ \A e \in Runs : self[e].pc = "init"
  /\ self' = [e \in Runs |-> OpenStep(self[e], pdf_metadata, pad_year)]
  /\ exact_images' = exact
  /\ UNCHANGED <<pages, children, marks, taken, pdf_metadata, store>>

\* The page loop takes the next page.
NextPage(tables) ==
  /\ Running
  /\ InputLeft
  /\ self' = [e \in Runs |->
               IF self[e].pc = "run" THEN PageStep(self[e], tables) ELSE self[e]]
  /\ pages' = Append(pages, tables)
  /\ UNCHANGED <<exact_images, children, marks, taken, pdf_metadata, store>>

\* The child loop takes the next node of the page.
Feed(child, io_ok) ==
  /\ Running
  /\ InputLeft
  /\ Len(pages) >= 1
  /\ LET next == [e \in Runs |->
                    IF self[e].pc = "run"
                    THEN ChildStep(self[e], e, exact_images, child, io_ok)
                    ELSE self[e]]
     IN /\ self' = next
        /\ marks' = Marked(next, Len(children) + 1)
  /\ children' = Append(children, [page |-> Len(pages), child |-> child])
  /\ taken' = [e \in Runs |->
                IF self[e].pc = "run" THEN taken[e] + 1 ELSE taken[e]]
  /\ UNCHANGED <<exact_images, pages, pdf_metadata, store>>

Heading ==
  \E child \in HeadingNodes : Feed(child, TRUE)

Paragraph ==
  \E child \in ParagraphNodes : \E io_ok \in BOOLEAN : Feed(child, io_ok)

Other ==
  \E child \in OtherNodes : Feed(child, TRUE)

\* The consumer pulls again after a Document closed by a heading.
Resume ==
  /\ \E e \in Runs : self[e].pc = "yield"
  /\ self' = [e \in Runs |->
               IF self[e].pc = "yield"
               THEN [ResetBuffers(self[e]) EXCEPT !.pc = "run"]
               ELSE self[e]]
  /\ UNCHANGED <<exact_images, pages, children, marks, taken, pdf_metadata,
                 store>>

\* The last page has been walked.
EndOfInput ==
  /\ Running
  /\ Len(pages) >= 1
  /\ LET next == [e \in Runs |->
                    IF self[e].pc = "run" THEN FinalStep(self[e], e)
                    ELSE self[e]]
     IN /\ self' = next
        /\ marks' = Marked(next, Len(children) + 1)
  /\ UNCHANGED <<exact_images, pages, children, taken, pdf_metadata, store>>

\* The consumer pulls again after the last Document: the generator ends.
Finish ==
  /\ \E e \in Runs : self[e].pc = "yield_final"
  /\ self' = [e \in Runs |->
               IF self[e].pc = "yield_final"
               THEN [ResetBuffers(self[e]) EXCEPT !.pc = "done"]
               ELSE self[e]]
  /\ UNCHANGED <<exact_images, pages, children, marks, taken, pdf_metadata,
                 store>>

Next ==
  \/ \E exact \in BOOLEAN : \E pad_year \in BOOLEAN : Call(exact, pad_year)
  \/ NextPage(PageTables(Len(pages) + 1))
  \/ Heading
  \/ Paragraph
  \/ Other
  \/ Resume
  \/ EndOfInput
  \/ Finish

Spec == Init /\ [][Next]_vars

\* ------------------------------------------------- documents of many dates
\* The same program on short documents, the dates drawn from the strings
\* "D:" year month day time suffix.
MaxDateInput == 3

DateYears ==
  { <<"2", "0", "2", "3">>, <<"2", "0", "2", "4">>, <<"1", "9", "0", "0">>,
    <<"0", "9", "9", "9">>, <<"2", "0", "x", "3">> }
DateMonths == { <<"0", "2">>, <<"0", "6">>, <<"1", "3">> }
DateDays == { <<"1", "5">>, <<"2", "9">>, <<"3", "0">> }
DateTimes ==
  { <<"1", "4", "3", "0", "2", "2">>, <<"2", "3", "5", "9", "5", "9">>,
    <<"2", "4", "0", "0", "0", "0">>, <<"1", "4", "3", "0">> }
DateSuffixes == { <<>>, <<"+", "0", "8", "'", "0", "0", "'">> }

DateStrings ==
  { <<"D", ":">> \o y \o m \o d \o t \o z :
      y \in DateYears, m \in DateMonths, d \in DateDays, t \in DateTimes,
      z \in DateSuffixes }

DateMetadata ==
  { [creationDate |-> c, modDate |-> m] :
      c \in DateStrings, m \in {LeapDate, Absent} }

InitDate ==
  /\ self = [e \in Runs |-> NewProcessor]
  /\ exact_images = FALSE
  /\ pages = <<>>
  /\ children = <<>>
  /\ marks = [e \in Runs |-> <<>>]
  /\ taken = [e \in Runs |-> 0]
  /\ pdf_metadata \in DateMetadata
  /\ store = NewStore

DateInputLeft == Len(pages) + Len(children) < MaxDateInput

NextDate ==
  \/ \E exact \in BOOLEAN : \E pad_year \in BOOLEAN : Call(exact, pad_year)
  \/ DateInputLeft /\ NextPage(PageTables(Len(pages) + 1))
  \/ DateInputLeft /\ Heading
  \/ DateInputLeft /\ Paragraph
  \/ DateInputLeft /\ Other
  \/ Resume
  \/ EndOfInput
  \/ Finish

SpecDate == InitDate /\ [][NextDate]_vars

\* ---------------------------------------------- reading the state and input
\* The contents of the three lists of the k-th Document of run e, now.
DocTitles(e, k) == self[e].heap[self[e].out[k].titles]
DocImages(e, k) == self[e].heap[self[e].out[k].images]
DocTable(e, k) == self[e].heap[self[e].out[k].table]

\* The k-th Document of run e was closed by a heading node (not by the end
\* of the input).
ClosedByHeading(e, k) == marks[e][k].node <= Len(children)

\* Slot i of the heading stack that the first n nodes of the input call for:
\* the text of the last heading of level i that no later heading of a lower
\* level has followed.
StackSlot(n, i) ==
  LET hs == {j \in 1..n :
               /\ IsHeading(children[j].child.name)
               /\ Level(children[j].child.name) = i
               /\ \A m \in (j + 1)..n :
                    IsHeading(children[m].child.name)
                      => Level(children[m].child.name) >= i}
  IN IF hs = {} THEN None
     ELSE children[CHOOSE j \in hs : \A m \in hs : m <= j].child.text

StackAt(n) == [i \in 1..NumSlots |-> StackSlot(n, i)]

\* A heading path: the slots up to the highest one that is set.
HeadingPath(stack) ==
  LET set == {i \in 1..Len(stack) : stack[i] # None}
  IN IF set = {} THEN <<>>
     ELSE SubSeq(stack, 1, CHOOSE i \in set : \A j \in set : j <= i)

\* The table texts of pages from..to of the input.
TableTexts(from, to) ==
  [i \in 1..(IF to >= from THEN to - from + 1 ELSE 0) |->
     PageTableText(pages[from + i - 1])]

\* The page and node at which the Document before the k-th was closed.
PreviousPage(e, k) == IF k = 1 THEN 0 ELSE marks[e][k - 1].page
PreviousNode(e, k) == IF k = 1 THEN 0 ELSE marks[e][k - 1].node

\* ------------------------------------------------------------------ claims

\* C1: a Document closed by heading(L, T) carries as its titles the heading
\* stack as it stood before heading(L, T) was applied, so T is not in it.
\* The code applies the heading first and then takes text_titles[:L].
C1_FlushCarriesStackBeforeHeading ==
  \A e \in Runs : \A k \in 1..Len(self[e].out) :
    ClosedByHeading(e, k)
      => /\ DocTitles(e, k) = HeadingPath(StackAt(marks[e][k].node - 1))
         /\ \A i \in 1..Len(DocTitles(e, k)) :
              DocTitles(e, k)[i] # children[marks[e][k].node].child.text

\* C2: the lists of a Document handed to the consumer hold at every later
\* point what they held when it was handed over.
C2_YieldedDocumentNeverChanges ==
  \A e \in Runs : \A k \in 1..Len(self[e].out) :
    /\ DocTitles(e, k) = marks[e][k].titles
    /\ DocImages(e, k) = marks[e][k].images
    /\ DocTable(e, k) = marks[e][k].table

\* C3: once the sequence of Documents is used up, the table text of every
\* page read is in the table list some Document was handed over with.
C3_NoTableDropped ==
  \A e \in Runs :
    self[e].pc = "done"
      => \A i \in 1..Len(pages) :
           \E k \in 1..Len(marks[e]) : \E j \in 1..Len(marks[e][k].table) :
             marks[e][k].table[j] = PageTableText(pages[i])

\* The node read last, and whether run e has walked the whole input read so
\* far (a run that raised stopped at the node that made it raise).
LastNode == children[Len(children)].child
Walked(e) == self[e].pc # "init" /\ self[e].pc # "raised"

\* The step reads a node and run e processes it.
Feeds(e) == self[e].pc = "run" /\ Len(children') = Len(children) + 1

\* C4: right after a heading node of level L and text T is processed, slot L
\* holds T, the slots above L are unset whatever they held, and the slots
\* below L hold what they held before.
C4_HeadingTruncation ==
  [][\A e \in Runs :
       Feeds(e) /\ IsHeadingNode(children'[Len(children')].child)
         => LET child == children'[Len(children')].child
                level == Level(child.name)
                old == self[e].heap[self[e].text_titles]
                new == self'[e].heap[self'[e].text_titles]
            IN /\ new[level] = child.text
               /\ \A i \in (level + 1)..NumSlots : new[i] = None
               /\ \A i \in 1..(level - 1) : new[i] = old[i]]_vars

\* C4 witness: a heading of level 2 has just been processed after a heading
\* of level 3 and one of level 1: slot 1 is kept, slot 3 is cleared.
C4_Witness ==
  /\ Len(children) >= 3
  /\ children[Len(children) - 2].child.name = "h1"
  /\ children[Len(children) - 1].child.name = "h3"
  /\ LastNode.name = "h2"
  /\ \E e \in Runs :
       /\ Walked(e)
       /\ self[e].heap[self[e].text_titles][1]
            = children[Len(children) - 2].child.text
       /\ self[e].heap[self[e].text_titles][2] = LastNode.text
       /\ self[e].heap[self[e].text_titles][3] = None

\* C10: a node that is neither a heading nor a paragraph changes nothing of
\* the processor: no slot, no text, no list, no Document, no exception.
C10_OtherNodeIgnored ==
  [][\A e \in Runs :
       Feeds(e) /\ IsOtherNode(children'[Len(children')].child)
         => self'[e] = self[e] /\ marks'[e] = marks[e]]_vars

\* C10 witness: a div has just been read by a run that holds a heading, text,
\* an image path and a table text.
C10_Witness ==
  /\ Len(children) >= 1
  /\ IsOtherNode(LastNode)
  /\ \E e \in Runs :
       /\ self[e].pc = "run"
       /\ self[e].accumulated_text # <<>>
       /\ self[e].heap[self[e].image_paths] # <<>>
       /\ self[e].heap[self[e].table_text_list] # <<>>
       /\ self[e].heap[self[e].text_titles][1] # None

\* A paragraph that is taken as text: every paragraph when exact_images is
\* off, and otherwise one in which no inlined image is found.
IsTextParagraph(c) ==
  /\ c.name = "p"
  /\ exact_images
       => check_and_decode_base64_image(
            c.img, "", [dir_exists |-> TRUE, files |-> {}], TRUE).path = None

\* The texts of the text paragraphs among nodes from..to, one after another.
RECURSIVE TextBetween(_, _)
TextBetween(from, to) ==
  IF from > to THEN <<>>
  ELSE (IF IsTextParagraph(children[from].child)
        THEN children[from].child.text ELSE <<>>)
       \o TextBetween(from + 1, to)

NotNone(t) == t # None

\* C5: the Document closed at the end of the input carries the text of
\* every level of the heading stack that is set then, in the order of the
\* levels.
C5_FinalFlushKeepsEveryLevel ==
  \A e \in Runs : \A k \in 1..Len(self[e].out) :
    ~ClosedByHeading(e, k)
      => SelectSeq(DocTitles(e, k), NotNone)
           = SelectSeq(StackAt(Len(children)), NotNone)

\* C5 witness: the input ends with a heading of level 2 and a paragraph,
\* level 1 set before, and the last Document carries both heading texts.
C5_Witness ==
  /\ Len(children) >= 3
  /\ children[Len(children) - 1].child.name = "h2"
  /\ LastNode.name = "p"
  /\ \E e \in Runs :
       /\ self[e].pc = "yield_final"
       /\ ~ClosedByHeading(e, Len(self[e].out))
       /\ DocTitles(e, Len(self[e].out))[1] # None
       /\ DocTitles(e, Len(self[e].out))[2]
            = children[Len(children) - 1].child.text

\* C6: on the same input the run with embed_titles emits as many Documents
\* as the run without, and the text of each is "\n".join(its heading path),
\* a blank line, and the text of the Document of the run without.
C6_TitleEmbeddingRoundTrip ==
  /\ Len(self[TRUE].out) = Len(self[FALSE].out)
  /\ \A k \in 1..Len(self[TRUE].out) :
       LET path == HeadingPath(DocTitles(TRUE, k))
       IN /\ ~JoinRaises(path)
          /\ self[TRUE].out[k].page_content
               = Join(NL, path) \o <<NL, NL>> \o self[FALSE].out[k].page_content

\* C7: without embed_titles the text of every Document is the texts of the
\* text paragraphs read since the Document before it (or since the start),
\* in the order read, with nothing between them, whatever the pages.
C7_ConcatenationWithoutSeparators ==
  \A k \in 1..Len(self[FALSE].out) :
    self[FALSE].out[k].page_content
      = TextBetween(PreviousNode(FALSE, k) + 1, marks[FALSE][k].node - 1)

\* C7 witness: a Document whose text is the two paragraphs "a" and "b",
\* read on two pages.
C7_Witness ==
  /\ Len(self[FALSE].out) >= 1
  /\ self[FALSE].out[1].page_content = <<"a", "b">>
  /\ children[1].page = 1
  /\ children[2].page = 2

C9_ImageFailureFallsBackToText ==
  \A e \in Runs : self[e].raised \notin {"binascii.Error", "OSError"}

\* The highest level of a heading stack that is set, 0 when none is.
HighestSet(stack) ==
  LET set == {i \in 1..Len(stack) : stack[i] # None}
  IN IF set = {} THEN 0 ELSE CHOOSE i \in set : \A j \in set : j <= i

\* C12: the titles of every Document, closed by a heading or by the end of
\* the input, are the slots 1..L for the highest level L set when it is
\* closed: the last entry is a heading text and there are at most L entries.
\* The Document closed at the end of the input carries all six slots.
C12_HeadingPathEndsAtHighestSetLevel ==
  \A e \in Runs : \A k \in 1..Len(marks[e]) :
    LET titles == marks[e][k].titles
        closedAt == IF ClosedByHeading(e, k) THEN marks[e][k].node
                    ELSE Len(children)
    IN /\ Len(titles) <= HighestSet(StackAt(closedAt))
       /\ Len(titles) > 0 => titles[Len(titles)] # None

\* ------------------------------------------- concurrent image extractions
\* The image routine of several extractions on one directory, a step for
\* each access to the file system.
MaxStores == 3

\* The inlined images stored: a png, the same bytes declared a jpeg, and a
\* png of other bytes.
JpegImg == ImgTag(<<"data:image/", "jpeg", ";base64,", "QUJD">>)
OtherImg == ImgTag(<<"data:image/", "png", ";base64,", "WFla">>)
StoreImages == {InlineImg, JpegImg, OtherImg}

InitStore ==
  /\ self = [e \in Runs |-> NewProcessor]
  /\ exact_images = TRUE
  /\ pages = <<>>
  /\ children = <<>>
  /\ marks = [e \in Runs |-> <<>>]
  /\ taken = [e \in Runs |-> 0]
  /\ pdf_metadata = [creationDate |-> ExampleDate, modDate |-> LeapDate]
  /\ store = NewStore

\* Extraction x enters the routine with an img tag: the data URL is taken
\* apart and the payload decoded; next is os.path.exists.
StoreBegin(x, img_tag) ==
  LET data_url == img_tag.src
      data_url_start == Find(data_url, "data:image/", 1)
      data_url_end == Find(data_url, ";base64,", data_url_start)
      img_data == SubSeq(data_url, data_url_end + 1, Len(data_url))
      image_data == b64decode(img_data)
      file_extension ==
        LastPart(SubSeq(data_url, data_url_start + 1, data_url_end - 1))
  IN /\ store.at[x] = "idle"
     /\ store.begun < MaxStores
     /\ ~B64Raises(img_data)
     /\ store' = [store EXCEPT
                    !.begun = @ + 1,
                    !.at[x] = "exists",
                    !.image_data[x] = image_data,
                    !.image_path[x] =
                      ImagePath(NewProcessor.pdf_images_dir, md5(image_data),
                                file_extension)]
     /\ UNCHANGED <<self, exact_images, pages, children, marks, taken,
                    pdf_metadata>>

\* if not os.path.exists(self.pdf_images_dir)
StoreExists(x) ==
  /\ store.at[x] = "exists"
  /\ store' = [store EXCEPT
                 !.at[x] = IF store.dir_exists THEN "open" ELSE "makedirs"]
  /\ UNCHANGED <<self, exact_images, pages, children, marks, taken,
                 pdf_metadata>>

\* os.makedirs(self.pdf_images_dir): FileExistsError when the directory is
\* there by now.
StoreMakedirs(x) ==
  /\ store.at[x] = "makedirs"
  /\ store' = IF store.dir_exists
              THEN [store EXCEPT !.at[x] = "raised",
                                 !.raised[x] = "FileExistsError"]
              ELSE [store EXCEPT !.at[x] = "open", !.dir_exists = TRUE]
  /\ UNCHANGED <<self, exact_images, pages, children, marks, taken,
                 pdf_metadata>>

\* open(image_path, "wb"), write, close, return image_path.
StoreOpen(x) ==
  /\ store.at[x] = "open"
  /\ store' = [store EXCEPT
                 !.at[x] = "idle",
                 !.files = @ \cup {store.image_path[x]},
                 !.stored = @ \cup {[image_data |-> store.image_data[x],
                                     image_path |-> store.image_path[x]]}]
  /\ UNCHANGED <<self, exact_images, pages, children, marks, taken,
                 pdf_metadata>>

NextStore ==
  \/ \E x \in Extractions : \E img_tag \in StoreImages : StoreBegin(x, img_tag)
  \/ \E x \in Extractions : StoreExists(x)
  \/ \E x \in Extractions : StoreMakedirs(x)
  \/ \E x \in Extractions : StoreOpen(x)

SpecStore == InitStore /\ [][NextStore]_vars

\* C11: whatever the interleaving of the extractions that store into one
\* directory, the directory there or not at the start, no store operation
\* ends in an error, and the same image bytes are stored under the same
\* path every time.
C11_ConcurrentStoresSucceed ==
  /\ \A x \in Extractions : store.raised[x] = ""
  /\ \A s \in store.stored : \A t \in store.stored :
       s.image_data = t.image_data => s.image_path = t.image_path

\* What holds of the paths: the path is made of the bytes and the declared
\* type, and a path returned names a file that is there.
StoredPathIsOfBytesAndType ==
  \A s \in store.stored :
    /\ s.image_path \in store.files
    /\ \A t \in store.stored :
         (s.image_data = t.image_data
            /\ s.image_path[Len(s.image_path)] = t.image_path[Len(t.image_path)])
           => s.image_path = t.image_path

\* The characters 3..16 of a date string read as a date and a time of the
\* calendar: fourteen digits, a month of the year, a day of the month.
MonthLengths == <<31, 28, 31, 30, 31, 30, 31, 31, 30, 31, 30, 31>>

WellFormedDate(raw) ==
  /\ Len(raw) >= 16
  /\ \A i \in 3..16 : IsDigit(raw[i])
  /\ LET num(a, b) == DigitsValue(SubSeq(raw, a, b))
         year == num(3, 6)
         month == num(7, 8)
         day == num(9, 10)
         leap == IF year % 100 = 0 THEN year % 400 = 0 ELSE year % 4 = 0
     IN /\ year >= 1
        /\ month \in 1..12
        /\ day >= 1
        /\ day <= (IF month = 2 /\ leap THEN 29 ELSE MonthLengths[month])
        /\ num(11, 12) <= 23
        /\ num(13, 14) <= 59
        /\ num(15, 16) <= 59

\* 'YYYY-MM-DD HH:MM:SS' of the characters 3..16 of a date string.
Positional(raw) ==
  <<raw[3], raw[4], raw[5], raw[6], "-", raw[7], raw[8], "-", raw[9],
    raw[10], " ", raw[11], raw[12], ":", raw[13], raw[14], ":", raw[15],
    raw[16]>>

DateKeys == {"creationDate", "modDate"}

\* C13: a date that is not well formed does not abort the document: no call
\* ends in the ValueError of the conversion, and after the call has opened
\* the file the file metadata holds the date as the file has it.
C13_MalformedDateDoesNotAbort ==
  \A e \in Runs :
    /\ self[e].raised # "ValueError"
    /\ self[e].pc # "init" =>
         \A key \in DateKeys :
           (pdf_metadata[key] # Absent /\ ~WellFormedDate(pdf_metadata[key]))
             => self[e].file_metadata[key] = pdf_metadata[key]

\* C14: every well formed date of the file is, once the call has opened the
\* file, the positional 'YYYY-MM-DD HH:MM:SS' of its characters in the file
\* metadata, and so it is in every Document emitted.
C14_DatesArePositional ==
  \A e \in Runs : \A key \in DateKeys :
    (pdf_metadata[key] # Absent /\ WellFormedDate(pdf_metadata[key])) =>
      /\ self[e].pc \notin {"init", "raised"} =>
           self[e].file_metadata[key] = Positional(pdf_metadata[key])
      /\ \A k \in 1..Len(self[e].out) :
           self[e].out[k][key] = Positional(pdf_metadata[key])

\* The same for the years of four digits, 1000 and later.
DatesOfFourDigitYearsArePositional ==
  \A e \in Runs : \A key \in DateKeys :
    (/\ pdf_metadata[key] # Absent
     /\ WellFormedDate(pdf_metadata[key])
     /\ pdf_metadata[key][3] # "0") =>
      /\ self[e].pc \notin {"init", "raised"} =>
           self[e].file_metadata[key] = Positional(pdf_metadata[key])
      /\ \A k \in 1..Len(self[e].out) :
           self[e].out[k][key] = Positional(pdf_metadata[key])

\* A Document carries the example date, converted.
ExampleDateConverted ==
  \E e \in Runs : \E k \in 1..Len(self[e].out) :
    /\ pdf_metadata.creationDate = ExampleDate
    /\ self[e].out[k].creationDate =
         <<"2", "0", "2", "3", "-", "0", "6", "-", "1", "5", " ", "1", "4",
           ":", "3", "0", ":", "2", "2">>

\* The step is one in which run e reaches the end of the input.
EndReached(e) ==
  self[e].pc = "run" /\ self'[e].pc \in {"yield_final", "done"}

\* The step is one in which run e emits a Document.
Emits(e) == Len(self'[e].out) = Len(self[e].out) + 1

\* Run e emits in the step exactly when it reaches a heading node or the end
\* of the input with text accumulated; a step emits one Document at most.
EmitsExactlyAtFlush(e) ==
  LET headingReached ==
        Feeds(e) /\ IsHeadingNode(children'[Len(children')].child)
  IN /\ Emits(e) \/ self'[e].out = self[e].out
     /\ Emits(e) <=> /\ headingReached \/ EndReached(e)
                     /\ self[e].accumulated_text # <<>>

\* C15: a Document is emitted exactly when a heading node or the end of the
\* input is reached while accumulated_text is not empty, and in no other
\* step; so a heading reached with no text emits nothing, nor does the end
\* of the input, and no Document has an empty body.
C15_EmittedExactlyAtFlush ==
  [][\A e \in Runs : EmitsExactlyAtFlush(e)]_vars

\* The same for the call without title embedding alone.
EmittedExactlyAtFlushWithoutEmbedding ==
  [][EmitsExactlyAtFlush(FALSE)]_vars

\* The k-th Document of run e is the first one closed on its page.
FirstOnPage(e, k) == PreviousPage(e, k) < marks[e][k].page

\* The table list handed over with the k-th Document of run e holds the
\* table text of the page the Document was closed on.
HasTableOfPage(e, k) ==
  \E i \in 1..Len(marks[e][k].table) :
    marks[e][k].table[i] = PageTableText(pages[marks[e][k].page])

\* C16 as stated: every Document closed while a page is processed, the
\* first and the later ones alike, has the table text of that page in its
\* table list.
C16_EveryDocumentOfThePageHasItsTable ==
  \A e \in Runs : \A k \in 1..Len(marks[e]) : HasTableOfPage(e, k)

\* C16 amended: the first Document closed on a page has the table text of
\* the page as the last entry of its table list; a later Document closed on
\* the same page has an empty table list.
C16_FirstDocumentOfThePageHasItsTable ==
  \A e \in Runs : \A k \in 1..Len(marks[e]) :
    LET table == marks[e][k].table
    IN IF FirstOnPage(e, k)
       THEN /\ Len(table) >= 1
            /\ table[Len(table)] = PageTableText(pages[marks[e][k].page])
       ELSE table = <<>>

\* Two Documents closed on one page that has a table.
C16_Witness ==
  \E e \in Runs : \E k \in 2..Len(marks[e]) :
    /\ ~FirstOnPage(e, k)
    /\ pages[marks[e][k].page] # <<>>
    /\ HasTableOfPage(e, k - 1)

\* The step is the one in which the page loop takes the next page.
PageBegins == Len(pages') = Len(pages) + 1

\* C17: the step from one page to the next emits nothing and leaves
\* accumulated_text, image_paths and the heading stack as they were; the
\* table list gets the table text of the new page as one more entry and is
\* otherwise as it was.
C17_PageBoundaryClosesNothing ==
  [][PageBegins =>
       /\ marks' = marks
       /\ children' = children
       /\ \A e \in Runs :
            LET p == self[e]
                q == self'[e]
            IN /\ q.out = p.out
               /\ q.pc = p.pc
               /\ q.accumulated_text = p.accumulated_text
               /\ q.image_paths = p.image_paths
               /\ q.heap[q.image_paths] = p.heap[p.image_paths]
               /\ q.text_titles = p.text_titles
               /\ q.heap[q.text_titles] = p.heap[p.text_titles]
               /\ q.table_text_list = p.table_text_list
               /\ p.pc = "run" =>
                    q.heap[q.table_text_list] =
                      Append(p.heap[p.table_text_list],
                             PageTableText(pages'[Len(pages')]))]_vars

\* A page has begun while text of the page before is accumulated and
\* images of it are collected, under a heading.
C17_Witness ==
  \E e \in Runs :
    /\ self[e].pc = "run"
    /\ Len(pages) >= 2
    /\ Len(children) >= 1
    /\ children[Len(children)].page < Len(pages)
    /\ self[e].accumulated_text # <<>>
    /\ self[e].heap[self[e].image_paths] # <<>>
    /\ self[e].heap[self[e].text_titles][1] # None

\* What the image routine does with the image of a node when makedirs and
\* open succeed.
Decoded(c) ==
  check_and_decode_base64_image(
    c.img, NewProcessor.pdf_images_dir, [dir_exists |-> TRUE, files |-> {}],
    TRUE)

\* An inlined base64 image is found in the node: the routine gets as far as
\* decoding it.
ImageFound(c) == Decoded(c).raised # "" \/ Decoded(c).path # None

\* The paths of the images found and stored among nodes from..to, in order.
RECURSIVE ImagesBetween(_, _)
ImagesBetween(from, to) ==
  IF from > to THEN <<>>
  ELSE (IF exact_images /\ IsParagraphNode(children[from].child)
           /\ Decoded(children[from].child).path # None
        THEN <<Decoded(children[from].child).path>> ELSE <<>>)
       \o ImagesBetween(from + 1, to)

\* A step in which run e takes a paragraph: with exact_images and an image
\* found in it, one path more in image_paths and the text as it was; without
\* exact_images, the text of the paragraph appended and image_paths empty.
ParagraphByMode(e) ==
  Feeds(e) /\ IsParagraphNode(children'[Len(children')].child) =>
    LET child == children'[Len(children')].child
        p == self[e]
        q == self'[e]
        old == p.heap[p.image_paths]
        new == q.heap[q.image_paths]
    IN IF exact_images /\ ImageFound(child)
       THEN /\ Len(new) = Len(old) + 1
            /\ SubSeq(new, 1, Len(old)) = old
            /\ new[Len(new)] \in q.storage.files
            /\ q.accumulated_text = p.accumulated_text
       ELSE ~exact_images =>
              /\ q.accumulated_text = p.accumulated_text \o child.text
              /\ new = <<>>

\* C18: with exact_images a paragraph in which an inlined base64 image is
\* found appends exactly one stored path to image_paths and leaves
\* accumulated_text as it was; without exact_images every paragraph appends
\* its text and image_paths stays empty.
C18_ParagraphHandlingByMode ==
  [][\A e \in Runs : ParagraphByMode(e)]_vars

\* The same for the steps in which the image routine returns.
ParagraphHandlingByModeWhenStored ==
  [][\A e \in Runs : self'[e].pc # "raised" => ParagraphByMode(e)]_vars

\* The image list handed over with a Document holds, in the order of the
\* nodes, the paths stored since the Document before it; none without
\* exact_images.
ImagesCollectedSinceThePreviousDocument ==
  \A e \in Runs : \A k \in 1..Len(marks[e]) :
    /\ marks[e][k].images =
         ImagesBetween(PreviousNode(e, k) + 1, marks[e][k].node - 1)
    /\ ~exact_images => marks[e][k].images = <<>>

\* The page contents of Documents, one after another.
RECURSIVE Bodies(_)
Bodies(docs) ==
  IF Len(docs) = 0 THEN <<>>
  ELSE docs[1].page_content \o Bodies(Tail(docs))

\* C19: once the call without title embedding is exhausted, the page
\* contents of its Documents, in the order emitted, make up the texts of the
\* text paragraphs of the input, in the order of the input, and
\* accumulated_text is empty.
C19_TextConservation ==
  self[FALSE].pc = "done" =>
    /\ Bodies(self[FALSE].out) = TextBetween(1, Len(children))
    /\ self[FALSE].accumulated_text = <<>>

\* The call is exhausted after two Documents, the first closed by a
\* heading after two paragraphs, the second by the end of the input.
C19_Witness ==
  /\ self[FALSE].pc = "done"
  /\ Len(self[FALSE].out) = 2
  /\ ClosedByHeading(FALSE, 1)
  /\ IsTextParagraph(children[1].child)
  /\ IsTextParagraph(children[2].child)
  /\ Len(self[FALSE].out[2].page_content) >= 1

\* Run e has ended: its generator is exhausted or has raised.
Ended(e) == self[e].pc \in {"done", "raised"}

\* C20: when the calls on a document have ended, every call has taken every
\* node of the document, once and in order, and has emitted at most one
\* Document more than the document has headings.
C20_EveryNodeProcessedOnce ==
  (\A e \in Runs : Ended(e)) =>
    \A e \in Runs : /\ taken[e] = Len(children)
                    /\ Len(self[e].out) <= HeadingsRead + 1

\* The same for the calls that are exhausted, and the bound on the
\* Documents for every call at every moment.
ExhaustedCallsProcessedEveryNode ==
  \A e \in Runs :
    /\ self[e].pc = "done" => taken[e] = Len(children)
    /\ Len(self[e].out) <= HeadingsRead + 1

\* The consumer keeps pulling and the input is finite: a step that can be
\* taken is taken.
FairSpec == Spec /\ WF_vars(Next)

\* Every call ends, exhausted or with an exception.
EveryCallEnds == <>(\A e \in Runs : Ended(e))

====
